---- MODULE Spec2Model ----
(***************************************************************************)
(* A model of ccperf.py: the rewrite of a compile command into a           *)
(* preprocess-only command (gcc_preprocess_file), the collection of one    *)
(* unit's metrics (collect_metrics), the thread-pool pass over the compile *)
(* database (record) and the report (load_info_db, generate_csv, main).    *)
(*                                                                         *)
(* A command line is a sequence of shell words ("lexemes", quotes still    *)
(* on); shlex.split turns it into tokens or raises.  Durations are         *)
(* abstracted to 0 (the literal 0.0) and 1 (a measured, positive time).    *)
(***************************************************************************)
EXTENDS Integers, Sequences, FiniteSets, TLC

\* ------------------------------------------------------------- bounds
\* Longest argument list (words after the program) of a rewritten command.
MaxArgs == 5
\* Most units in the compile database.
MaxUnits == 2
\* Largest pool size (-j).
MaxJobs == 2
\* Number of scratch names mkstemp draws from.
MaxTmp == 2

VARIABLES
    rw_cmd,      \* gcc_preprocess_file alone: the cmd argument (shell words)
    rw_file,     \* gcc_preprocess_file alone: cpp_file, "" before mkstemp
    rw_opts,     \* gcc_preprocess_file alone: the list handed to check_output
    rw_pc,       \* "off" | "call" | "exec" (compiler started) | "raised"
    args,        \* main: [record, no_run, num_jobs]
    compile_db,  \* compile_commands.json: [exists, items]
    store,       \* .ccperf: [exists, text]
    pc,          \* the main thread's position
    results,     \* record: the futures, in submission order
    next,        \* record: position of the collecting loop in results
    record_db,   \* record: the list being built
    fut,         \* per unit: the state of its collect_metrics call
    fs,          \* the temporary directory: name -> "absent" | "empty" | "full"
    fds,         \* units whose temp_fd is open
    diag,        \* stderr: the "***"/"Could not find" lines, as <<kind, unit>>
    out,         \* stdout: the rows printed
    status,      \* the process's exit status, -1 while it runs
    writes,      \* how many times .ccperf was written
    overtaken    \* history: a unit completed before one submitted earlier

rw_vars == <<rw_cmd, rw_file, rw_opts, rw_pc>>
pass_vars == <<args, compile_db, store, pc, results, next, record_db, fut, fs, fds,
               diag, out, status, writes, overtaken>>
vars == <<rw_vars, pass_vars>>

\* ------------------------------------------------- shell words, tokens
\* The names mkstemp('.i', 'ccperf') can hand out.
TmpPaths == <<"/tmp/ccperf1.i", "/tmp/ccperf2.i", "/tmp/ccperf3.i", "/tmp/ccperf4.i">>

\* A word whose quote is never closed: shlex.split raises ValueError on it.
Unterminated == {"'x", "'x.c"}

\* shlex removes the quotes of a word and keeps what they enclose.
Unquote(w) ==
    CASE w = "''" -> ""
      [] w = "' -M '" -> " -M "
      [] w = "' '" -> " "
      [] OTHER -> w

\* shlex.split(cmd): the tokens, or ok = FALSE where Python raises ValueError.
ShlexSplit(cmd) ==
    IF \E k \in 1..Len(cmd) : cmd[k] \in Unterminated
    THEN [ok |-> FALSE, tokens |-> <<>>]
    ELSE [ok |-> TRUE, tokens |-> [k \in 1..Len(cmd) |-> Unquote(cmd[k])]]

\* str.strip() on the tokens of the model.
Strip(t) ==
    CASE t = " -M " -> "-M"
      [] t = " " -> ""
      [] OTHER -> t

DropFlags == {"-M", "-MM", "-MG", "-MP", "-MD", "-MMD"}
ArgFlags == {"-MF", "-MT", "-MQ"}

\* list.pop(i) at the (1-based) position k.
Pop(s, k) == SubSeq(s, 1, k - 1) \o SubSeq(s, k + 1, Len(s))

\* One pass of the loop body for Python's index i = k - 1.
RewriteOpt(opts, k, cpp_file) ==
    LET opt == Strip(opts[k])
        o1 == IF opt = "" THEN Pop(opts, k) ELSE opts
    IN  IF opt = "-c" THEN [o1 EXCEPT ![k] = "-E"]
        ELSE IF opt = "-o" /\ k + 1 <= Len(o1) THEN [o1 EXCEPT ![k + 1] = cpp_file]
        ELSE IF opt \in DropFlags THEN Pop(o1, k)
        ELSE IF opt \in ArgFlags /\ k + 1 <= Len(o1) THEN Pop(Pop(o1, k + 1), k)
        ELSE o1

\* for i in range(len(opts) - 1, 0, -1): positions Len(opts) down to 2.
RECURSIVE Scan(_, _, _)
Scan(opts, k, cpp_file) ==
    IF k < 2 THEN opts
    ELSE Scan(RewriteOpt(opts, k, cpp_file), k - 1, cpp_file)

\* The token list passed to the compiler: the scan, then opts.append('-H').
GccRewrite(tokens, cpp_file) ==
    Append(Scan(tokens, Len(tokens), cpp_file), "-H")

\* ------------------------------------------ the rewrite, on its own
RwWords == {"-c", "-o", "out.o", "-MD", "-MF", "''", "' -M '", "'x"}

RECURSIVE SeqsUpTo(_, _)
SeqsUpTo(S, n) ==
    IF n = 0 THEN {<<>>}
    ELSE LET shorter == SeqsUpTo(S, n - 1)
         IN  shorter \cup {Append(s, x) : s \in {t \in shorter : Len(t) = n - 1}, x \in S}

RwOff ==
    /\ rw_cmd = <<>>
    /\ rw_file = ""
    /\ rw_opts = <<>>
    /\ rw_pc = "off"

RwStart ==
    /\ rw_cmd \in {<<"gcc">> \o a : a \in SeqsUpTo(RwWords, MaxArgs)}
    /\ rw_file = ""
    /\ rw_opts = <<>>
    /\ rw_pc = "call"

\* gcc_preprocess_file up to the start of the compiler.
RwPreprocess ==
    /\ rw_pc = "call"
    /\ LET split == ShlexSplit(rw_cmd)
       IN  /\ rw_file' = TmpPaths[1]
           /\ IF split.ok
              THEN /\ rw_opts' = GccRewrite(split.tokens, TmpPaths[1])
                   /\ rw_pc' = "exec"
              ELSE /\ rw_opts' = <<>>
                   /\ rw_pc' = "raised"
    /\ UNCHANGED <<rw_cmd, pass_vars>>

\* --------------------------------------------------- paths and headers
\* A path: absolute or not, and its components.
BuildDir == [abs |-> TRUE, parts |-> <<"build">>]

\* os.path.abspath(os.path.join(dir, p)).
AbsJoin(dir, p) ==
    IF p.abs THEN p ELSE [abs |-> TRUE, parts |-> dir.parts \o p.parts]

\* What a successful preprocessing run prints with -H: per line, the number
\* of leading periods before a space (0: an ordinary diagnostic) and the rest.
CcTrace ==
    << [dots |-> 1, text |-> [abs |-> FALSE, parts |-> <<"a.h">>]],
       [dots |-> 2, text |-> [abs |-> TRUE, parts |-> <<"usr", "include", "b.h">>]],
       [dots |-> 0, text |-> [abs |-> FALSE, parts |-> <<"warning:">>]],
       [dots |-> 1, text |-> [abs |-> FALSE, parts |-> <<"a.h">>]] >>

\* The lines matching '^\.+ ', made absolute, as a set (list(set(...))).
ParseHeaders(trace, dir) ==
    {AbsJoin(dir, trace[k].text) : k \in {j \in 1..Len(trace) : trace[j].dots >= 1}}

is_system_header(p) ==
    p.abs /\ Len(p.parts) >= 1 /\ p.parts[1] \in {"usr", "System"}

\* ------------------------------------------------------------ commands
CmdGccOut == <<"/usr/bin/gcc", "-MD", "-MF", "dep.d", "-c", "-o", "out.o", "x.c">>
CmdGccNoOut == <<"Clang++", "-c", "x.c">>
CmdOther == <<"cl.exe", "/c", "x.c">>
CmdMalformed == <<"gcc", "-c", "'x.c">>

\* os.path.basename(program).lower() of the programs of the model.
BaseNameLower(w) ==
    CASE w = "/usr/bin/gcc" -> "gcc"
      [] w = "Clang++" -> "clang++"
      [] OTHER -> w

\* Basenames (of the model's programs) holding 'gcc', 'g++' or 'clang'.
GccLike == {"gcc", "g++", "clang", "clang++"}

\* A broken classifier: a command that does not tokenize counts as gcc.
is_gcc_command_nocatch(cmd) ==
    LET split == ShlexSplit(cmd)
    IN  IF split.ok /\ Len(split.tokens) >= 1
        THEN BaseNameLower(split.tokens[1]) \in GccLike
        ELSE TRUE

\* is_gcc_command: any exception (ValueError, IndexError) gives False.
is_gcc_command(cmd) ==
    LET split == ShlexSplit(cmd)
    IN  IF split.ok /\ Len(split.tokens) >= 1
        THEN BaseNameLower(split.tokens[1]) \in GccLike
        ELSE FALSE

\* A call of dummy_preprocess_file with argc positional arguments: the
\* function takes two, any other count raises TypeError.
dummy_preprocess_file(argc) ==
    IF argc = 2
    THEN [raised |-> FALSE,
          value |-> [bytes |-> 0, lines |-> 0, header_files |-> {}, time |-> 0]]
    ELSE [raised |-> TRUE,
          value |-> [bytes |-> 0, lines |-> 0, header_files |-> {}, time |-> 0]]

\* os.stat(cpp_file).st_size and count_lines(cpp_file) of a scratch file.
ScratchInfo(content) ==
    IF content = "full" THEN [bytes |-> 50, lines |-> 5] ELSE [bytes |-> 0, lines |-> 0]

\* get_original_size(src_file) of a readable source file.
get_original_size == [bytes |-> 20, lines |-> 2]

\* Whether the compiler started with opts writes its output to path.
WritesTo(opts, path) ==
    \E k \in 1..Len(opts) - 1 : opts[k] = "-o" /\ opts[k + 1] = path

\* The record collect_metrics returns.
MetricRecord(src_file, src_info, pp_info, run_info) ==
    [file |-> src_file,
     headers_all |-> Cardinality(pp_info.header_files),
     headers_sys |-> Cardinality({h \in pp_info.header_files : is_system_header(h)}),
     bytes |-> src_info.bytes,
     bytes_pp |-> pp_info.bytes,
     lines |-> src_info.lines,
     lines_pp |-> pp_info.lines,
     time_pp |-> pp_info.time,
     time_run |-> run_info.time]

\* ----------------------------------------------------- the record store
SortedKeys ==
    <<"bytes", "bytes_pp", "file", "headers_all", "headers_sys", "lines", "lines_pp",
      "time_pp", "time_run">>

\* json.dump(record_db, sort_keys=True): per record its key/value pairs, sorted.
JsonDump(db) ==
    [i \in 1..Len(db) |-> [k \in 1..Len(SortedKeys) |-> <<SortedKeys[k], db[i][SortedKeys[k]]>>]]

\* json.loads: per object the mapping from its keys to their values.
JsonLoads(text) ==
    [i \in 1..Len(text) |->
        [key \in {text[i][k][1] : k \in 1..Len(text[i])} |->
            text[i][CHOOSE k \in 1..Len(text[i]) : text[i][k][1] = key][2]]]

\* -------------------------------------------------------- the report
CsvHeader ==
    <<"File", "Headers (all)", "System headers", "Bytes", "Lines", "Bytes preproc.",
      "Lines preproc.", "Time preproc.", "Time run">>

\* A broken row: the fields in the order the data model lists them.
CsvRowDataModelOrder(item) ==
    <<item["file"], item["bytes"], item["lines"], item["bytes_pp"], item["lines_pp"],
      item["headers_all"], item["headers_sys"], item["time_pp"], item["time_run"]>>

\* The tuple generate_csv formats for one record.
CsvRow(item) ==
    <<item["file"], item["headers_all"], item["headers_sys"], item["bytes"],
      item["lines"], item["bytes_pp"], item["lines_pp"], item["time_pp"],
      item["time_run"]>>

\* ------------------------------------------------------------ the pass
SrcFiles ==
    << [abs |-> FALSE, parts |-> <<"a.c">>], [abs |-> FALSE, parts |-> <<"b.c">>],
       [abs |-> FALSE, parts |-> <<"c.c">>], [abs |-> FALSE, parts |-> <<"d.c">>] >>

\* A unit: its command, and whether its source file can be read.
UnitKinds ==
    {[command |-> c, readable |-> TRUE] : c \in {CmdGccOut, CmdGccNoOut, CmdOther, CmdMalformed}}
        \cup {[command |-> CmdGccOut, readable |-> FALSE]}

Units == 1..MaxUnits
TmpNames == {TmpPaths[k] : k \in 1..MaxTmp}

\* A .ccperf left by an earlier pass.
OldStore ==
    JsonDump(<< MetricRecord(AbsJoin(BuildDir, SrcFiles[1]), get_original_size,
                             [bytes |-> 50, lines |-> 5,
                              header_files |-> ParseHeaders(CcTrace, BuildDir), time |-> 1],
                             [time |-> 1]) >>)

\* A unit's call: its position, and the locals that outlive a step
\* (gcc_preprocess_file's cpp_file and the compiler's exit, collect_metrics'
\* pp_info and the record returned).
NoFuture ==
    [st |-> "none", cpp_file |-> "", cc |-> "", pp_info |-> <<>>, rec |-> <<>>]

PassOff ==
    /\ args = [record |-> FALSE, no_run |-> TRUE, num_jobs |-> 1]
    /\ compile_db = [exists |-> FALSE, items |-> <<>>]
    /\ store = [exists |-> FALSE, text |-> <<>>]
    /\ pc = "off"
    /\ results = <<>>
    /\ next = 1
    /\ record_db = <<>>
    /\ fut = [u \in Units |-> NoFuture]
    /\ fs = [p \in TmpNames |-> "absent"]
    /\ fds = {}
    /\ diag = {}
    /\ out = <<>>
    /\ status = -1
    /\ writes = 0
    /\ overtaken = FALSE

PassStart ==
    /\ args \in [record : BOOLEAN, no_run : BOOLEAN, num_jobs : 1..MaxJobs]
    /\ \E n \in 0..MaxUnits, kinds \in [1..MaxUnits -> UnitKinds], there \in BOOLEAN :
          compile_db =
              [exists |-> there,
               items |-> IF there
                         THEN [i \in 1..n |->
                                  [directory |-> BuildDir, file |-> SrcFiles[i],
                                   command |-> kinds[i].command,
                                   readable |-> kinds[i].readable]]
                         ELSE <<>>]
    /\ store \in {[exists |-> FALSE, text |-> <<>>], [exists |-> TRUE, text |-> OldStore]}
    \* a pass that gets to write .ccperf starts without one
    /\ args.record /\ compile_db.exists => ~store.exists
    /\ pc = "main"
    /\ results = <<>>
    /\ next = 1
    /\ record_db = <<>>
    /\ fut = [u \in Units |-> NoFuture]
    /\ fs = [p \in TmpNames |-> "absent"]
    /\ fds = {}
    /\ diag = {}
    /\ out = <<>>
    /\ status = -1
    /\ writes = 0
    /\ overtaken = FALSE

Items == compile_db.items
do_run_command == ~args.no_run
Finished(u) == fut[u].st \in {"done", "failed"}
Running(u) == fut[u].st \in {"cc", "post", "run"}
\* The history after unit u completes.
Completes(u) == overtaken \/ \E v \in Units : v < u /\ fut[v].st \notin {"none", "done", "failed"}
\* Whether the collecting loop has taken unit u's future.
Collected(u) ==
    \/ <<"exc", u>> \in diag
    \/ fut[u].st = "done" /\ \E k \in 1..Len(record_db) : record_db[k] = fut[u].rec[1]

\* main: record(...) when --record is given, then generate_csv().
Main ==
    /\ pc = "main"
    /\ pc' = IF args.record THEN "record" ELSE "csv"
    /\ UNCHANGED <<rw_vars, args, compile_db, store, results, next, record_db, fut, fs, fds, diag,
                   out, status, writes, overtaken>>

\* record: the check for compile_commands.json; sys.exit() has no argument.
RecordOpen ==
    /\ pc = "record"
    /\ IF compile_db.exists
       THEN /\ pc' = "submit"
            /\ UNCHANGED <<diag, status>>
       ELSE /\ diag' = diag \cup {<<"nodb", 0>>}
            /\ status' = 0
            /\ pc' = "exit"
    /\ UNCHANGED <<rw_vars, args, compile_db, store, results, next, record_db, fut, fs, fds, out,
                   writes, overtaken>>

\* The unit the n-th pass of "for item in compile_db" submits.
SubmitTarget(n) == n

\* results.append(executor.submit(collect_metrics, ...)).
Submit ==
    /\ pc = "submit"
    /\ Len(results) < Len(Items)
    /\ LET u == SubmitTarget(Len(results) + 1)
       IN  /\ results' = Append(results, u)
           /\ fut' = [fut EXCEPT ![u].st = IF @ = "none" THEN "queued" ELSE @]
    /\ UNCHANGED <<rw_vars, args, compile_db, store, pc, next, record_db, fs, fds, diag, out,
                   status, writes, overtaken>>

SubmitEnd ==
    /\ pc = "submit"
    /\ Len(results) = Len(Items)
    /\ pc' = "collect"
    /\ UNCHANGED <<rw_vars, args, compile_db, store, results, next, record_db, fut, fs, fds, diag,
                   out, status, writes, overtaken>>

\* collect_metrics after preprocess_file returned pp_info: run_cmd is started
\* when asked for, else dummy_run_cmd gives the time 0.0 and the record is built.
AfterPreprocess(u, pp_info) ==
    IF do_run_command
    THEN [fut[u] EXCEPT !.st = "run", !.cpp_file = "", !.cc = "", !.pp_info = <<pp_info>>]
    ELSE [fut[u] EXCEPT
             !.st = "done", !.cpp_file = "", !.cc = "",
             !.rec = <<MetricRecord(AbsJoin(Items[u].directory, Items[u].file),
                                    get_original_size, pp_info, [time |-> 0])>>]

\* A pool thread takes the oldest queued unit and runs collect_metrics up to
\* the start of the compiler: get_original_size, is_gcc_command, mkstemp,
\* shlex.split, the rewrite.
StartUnit(u) ==
    /\ fut[u].st = "queued"
    /\ \A v \in Units : v < u => fut[v].st # "queued"
    /\ Cardinality({v \in Units : Running(v)}) < args.num_jobs
    /\ LET item == Items[u]
           split == ShlexSplit(item.command)
       IN  IF ~item.readable
           THEN \* os.stat(src_file) raises
                /\ fut' = [fut EXCEPT ![u].st = "failed"]
                /\ overtaken' = Completes(u)
                /\ UNCHANGED <<fs, fds>>
           ELSE IF is_gcc_command(item.command)
           THEN \* mkstemp creates, with O_EXCL, a file under a name not in use
                \E p \in TmpNames :
                    /\ fs[p] = "absent"
                    /\ IF split.ok
                       THEN /\ fs' = [fs EXCEPT ![p] = "empty"]
                            /\ fds' = fds \cup {u}
                            /\ fut' = [fut EXCEPT
                                          ![u].st = "cc", ![u].cpp_file = p]
                            /\ UNCHANGED overtaken
                       ELSE \* ValueError; the finally clause closes and removes
                            /\ fut' = [fut EXCEPT ![u].st = "failed"]
                            /\ overtaken' = Completes(u)
                            /\ UNCHANGED <<fs, fds>>
           ELSE /\ fut' = [fut EXCEPT ![u] = AfterPreprocess(u, dummy_preprocess_file(2).value)]
                /\ overtaken' = IF do_run_command THEN overtaken ELSE Completes(u)
                /\ UNCHANGED <<fs, fds>>
    /\ UNCHANGED <<rw_vars, args, compile_db, store, pc, results, next, record_db, diag, out,
                   status, writes>>

\* The list unit u's gcc_preprocess_file hands to check_output.
PassedOpts(u) == GccRewrite(ShlexSplit(Items[u].command).tokens, fut[u].cpp_file)

\* The compiler process ends: it wrote its output (to the scratch file when
\* an -o names it, else to stdout), or it failed, leaving its output file or
\* removing it.
CcExit(u) ==
    /\ fut[u].st = "cc"
    /\ \E outcome \in {"ok", "fail", "fail_unlink"} :
          LET to_scratch == WritesTo(PassedOpts(u), fut[u].cpp_file)
          IN  /\ outcome = "fail_unlink" => to_scratch
              /\ fs' = IF outcome = "ok" /\ to_scratch
                       THEN [fs EXCEPT ![fut[u].cpp_file] = "full"]
                       ELSE IF outcome = "fail_unlink"
                       THEN [fs EXCEPT ![fut[u].cpp_file] = "absent"]
                       ELSE fs
              /\ fut' = [fut EXCEPT ![u].st = "post",
                                    ![u].cc = IF outcome = "ok" THEN "ok" ELSE "fail"]
    /\ UNCHANGED <<rw_vars, args, compile_db, store, pc, results, next, record_db, fds, diag, out,
                   status, writes, overtaken>>

\* The finally clause: os.remove(cpp_file) when os.path.isfile(cpp_file).
Cleanup(u) == [fs EXCEPT ![fut[u].cpp_file] = "absent"]

\* gcc_preprocess_file after check_output: the result, or the handler (the
\* diagnostic, then dummy_preprocess_file() without arguments); the finally
\* clause; then collect_metrics goes on.
PostCc(u) ==
    /\ fut[u].st = "post"
    /\ LET good == fut[u].cc = "ok" /\ fs[fut[u].cpp_file] # "absent"
           info == ScratchInfo(fs[fut[u].cpp_file])
           result == [bytes |-> info.bytes, lines |-> info.lines,
                      header_files |-> ParseHeaders(CcTrace, Items[u].directory),
                      time |-> 1]
           handler == dummy_preprocess_file(0)
       IN  /\ fs' = Cleanup(u)
           /\ fds' = fds \ {u}
           /\ IF good
              THEN /\ fut' = [fut EXCEPT ![u] = AfterPreprocess(u, result)]
                   /\ overtaken' = IF do_run_command THEN overtaken ELSE Completes(u)
                   /\ UNCHANGED diag
              ELSE /\ diag' = diag \cup {<<"pp", u>>}
                   /\ IF handler.raised
                      THEN /\ fut' = [fut EXCEPT ![u].st = "failed", ![u].cpp_file = "",
                                                    ![u].cc = ""]
                           /\ overtaken' = Completes(u)
                      ELSE /\ fut' = [fut EXCEPT ![u] = AfterPreprocess(u, handler.value)]
                           /\ overtaken' = IF do_run_command THEN overtaken ELSE Completes(u)
    /\ UNCHANGED <<rw_vars, args, compile_db, store, pc, results, next, record_db, out, status,
                   writes>>

\* run_cmd: the shell running the original command ends; a failure is
\* reported and the time is returned all the same.
RunExit(u) ==
    /\ fut[u].st = "run"
    /\ \E failed \in BOOLEAN :
          diag' = IF failed THEN diag \cup {<<"run", u>>} ELSE diag
    /\ fut' = [fut EXCEPT
                  ![u].st = "done", ![u].pp_info = <<>>,
                  ![u].rec = <<MetricRecord(AbsJoin(Items[u].directory, Items[u].file),
                                            get_original_size, fut[u].pp_info[1],
                                            [time |-> 1])>>]
    /\ overtaken' = Completes(u)
    /\ UNCHANGED <<rw_vars, args, compile_db, store, pc, results, next, record_db, fs, fds, out,
                   status, writes>>

\* A broken loop: the futures are taken as they complete.
NextFutureAsCompleted(n) ==
    LET ready == {u \in Units : Finished(u) /\ ~Collected(u)}
    IN  IF ready = {} THEN 0 ELSE CHOOSE u \in ready : \A v \in ready : u >= v

\* for future in results: the n-th future.
NextFuture(n) == results[n]

\* A broken wait: a future that has not finished counts as failed.
ResultReadyNoWait(u) == TRUE

\* future.result() returns or raises once the future has finished.
ResultReady(u) == Finished(u)

\* One pass of the collecting loop.
Collect ==
    /\ pc = "collect"
    /\ next <= Len(results)
    /\ LET u == NextFuture(next)
       IN  /\ u \in Units
           /\ ResultReady(u)
           /\ IF fut[u].st = "done"
              THEN /\ record_db' = Append(record_db, fut[u].rec[1])
                   /\ UNCHANGED diag
              ELSE /\ diag' = diag \cup {<<"exc", u>>}
                   /\ UNCHANGED record_db
    /\ next' = next + 1
    /\ UNCHANGED <<rw_vars, args, compile_db, store, pc, results, fut, fs, fds, out, status,
                   writes, overtaken>>

\* The end of the with block: the executor is shut down, waiting for its threads.
CollectEnd ==
    /\ pc = "collect"
    /\ next > Len(results)
    /\ \A k \in 1..Len(results) : Finished(results[k])
    /\ pc' = "write"
    /\ UNCHANGED <<rw_vars, args, compile_db, store, results, next, record_db, fut, fs, fds, diag,
                   out, status, writes, overtaken>>

\* json.dump(record_db, ...) into .ccperf.
Write ==
    /\ pc = "write"
    /\ store' = [exists |-> TRUE, text |-> JsonDump(record_db)]
    /\ writes' = writes + 1
    /\ pc' = "csv"
    /\ UNCHANGED <<rw_vars, args, compile_db, results, next, record_db, fut, fs, fds, diag, out,
                   status, overtaken>>

\* generate_csv with load_info_db: sys.exit() has no argument.
GenerateCsv ==
    /\ pc = "csv"
    /\ IF store.exists
       THEN /\ LET info_db == JsonLoads(store.text)
               IN  out' = <<CsvHeader>> \o [i \in 1..Len(info_db) |-> CsvRow(info_db[i])]
            /\ UNCHANGED diag
       ELSE /\ diag' = diag \cup {<<"nostore", 0>>}
            /\ UNCHANGED out
    /\ status' = 0
    /\ pc' = "exit"
    /\ UNCHANGED <<rw_vars, args, compile_db, store, results, next, record_db, fut, fs, fds,
                   writes, overtaken>>

Init == PassStart /\ RwOff

Next ==
    \/ Main
    \/ RecordOpen
    \/ Submit
    \/ SubmitEnd
    \/ \E u \in Units : StartUnit(u)
    \/ \E u \in Units : CcExit(u)
    \/ \E u \in Units : PostCc(u)
    \/ \E u \in Units : RunExit(u)
    \/ Collect
    \/ CollectEnd
    \/ Write
    \/ GenerateCsv

Spec == Init /\ [][Next]_vars

RwInit == RwStart /\ PassOff

RwNext == RwPreprocess

SpecRewrite == RwInit /\ [][RwNext]_vars

\* ===================================================== the rewrite claims
RwTokens == ShlexSplit(rw_cmd).tokens

\* The tokens -c -o out.o stand at positions j, j+1, j+2 of s.
TripleAt(s, j) ==
    /\ j + 2 <= Len(s)
    /\ s[j] = "-c" /\ s[j + 1] = "-o" /\ s[j + 2] = "out.o"

\* The list passed to the compiler holds -E, -o and the scratch path in a row.
RewrittenTriple ==
    \E k \in 2..Len(rw_opts) - 2 :
        rw_opts[k] = "-E" /\ rw_opts[k + 1] = "-o" /\ rw_opts[k + 2] = rw_file

NoCompileOnly == \A k \in 2..Len(rw_opts) : rw_opts[k] # "-c"

\* C1: for every command that tokenizes and holds the adjacent tokens
\* -c -o out.o after the program name, whatever surrounds them, the list
\* passed to the compiler holds -E where -c was, directly before -o and the
\* scratch path, and holds no -c.
C1_AnyContext ==
    (rw_pc = "exec" /\ \E j \in 2..Len(RwTokens) : TripleAt(RwTokens, j))
        => RewrittenTriple /\ NoCompileOnly

\* C2: for every command that tokenizes, the list the backward scan produces
\* holds none of -M -MM -MG -MP -MD -MMD and none of -MF -MT -MQ, wherever the
\* flags stand (last token, next to one another).
C2_NoDependencyFlags ==
    rw_pc = "exec" =>
        \A k \in 2..Len(rw_opts) : rw_opts[k] \notin (DropFlags \cup ArgFlags)

\* ======================================================== the pass claims
N == Len(Items)
File(u) == AbsJoin(Items[u].directory, Items[u].file)
Malformed(u) == ~ShlexSplit(Items[u].command).ok
RecordsFor(u) == {k \in 1..Len(record_db) : record_db[k]["file"] = File(u)}
ZeroPp(r) == r["bytes_pp"] = 0 /\ r["lines_pp"] = 0 /\ r["time_pp"] = 0
\* The "***" lines on stderr.
ErrorLines == {d \in diag : d[1] \in {"pp", "run", "exc"}}
Written == writes >= 1

C4_FailedUnitRecorded ==
    Written =>
        \A u \in 1..N :
            <<"pp", u>> \in diag =>
                /\ RecordsFor(u) # {}
                /\ \A k \in RecordsFor(u) : ZeroPp(record_db[k])

IsDone(u) == fut[u].st = "done"

\* C5: whatever the order of completion and the pool size, the Record
\* Database holds the records of the collected units that did not raise, in
\* the order of submission.
C5_SubmissionOrder ==
    LET taken == SelectSeq(SubSeq(results, 1, next - 1), IsDone)
    IN  record_db = [k \in 1..Len(taken) |-> fut[taken[k]].rec[1]]

\* C5's case: a unit completed before one submitted earlier, and both are
\* in the Record Database.
C5_Witness ==
    /\ overtaken
    /\ Len(record_db) >= 2
    /\ Written

\* C6: when compile_commands.json or .ccperf is missing the run reports it,
\* collects and prints nothing, and ends with a non-zero exit status.
C6_MissingInputFails ==
    (pc = "exit" /\ (<<"nodb", 0>> \in diag \/ <<"nostore", 0>> \in diag))
        => status > 0 /\ out = <<>> /\ results = <<>>

Loaded == JsonLoads(store.text)
Reported == pc = "exit" /\ <<"nodb", 0>> \notin diag /\ <<"nostore", 0>> \notin diag

\* C7 as stated: a header row, then one row per record of the loaded
\* database in its order, the columns in the order of the data model: file,
\* bytes, lines, bytes_pp, lines_pp, headers_all, headers_sys, time_pp, time_run.
C7_DataModelColumns ==
    Reported =>
        /\ Len(out) = Len(Loaded) + 1
        /\ out[1] = <<"File", "Bytes", "Lines", "Bytes preproc.", "Lines preproc.",
                      "Headers (all)", "System headers", "Time preproc.", "Time run">>
        /\ \A i \in 1..Len(Loaded) :
              out[i + 1] = <<Loaded[i]["file"], Loaded[i]["bytes"], Loaded[i]["lines"],
                             Loaded[i]["bytes_pp"], Loaded[i]["lines_pp"],
                             Loaded[i]["headers_all"], Loaded[i]["headers_sys"],
                             Loaded[i]["time_pp"], Loaded[i]["time_run"]>>

\* C7 amended: a header row, then one row per record of the loaded database
\* in its order, the columns of the header and of every row in the order file,
\* headers_all, headers_sys, bytes, lines, bytes_pp, lines_pp, time_pp, time_run.
C7_ReportColumns ==
    Reported =>
        /\ Len(out) = Len(Loaded) + 1
        /\ out[1] = <<"File", "Headers (all)", "System headers", "Bytes", "Lines",
                      "Bytes preproc.", "Lines preproc.", "Time preproc.", "Time run">>
        /\ \A i \in 1..Len(Loaded) :
              out[i + 1] = <<Loaded[i]["file"], Loaded[i]["headers_all"],
                             Loaded[i]["headers_sys"], Loaded[i]["bytes"],
                             Loaded[i]["lines"], Loaded[i]["bytes_pp"],
                             Loaded[i]["lines_pp"], Loaded[i]["time_pp"],
                             Loaded[i]["time_run"]>>

\* C7's case: the report of a database of two records that was just recorded.
C7_Witness ==
    /\ Reported
    /\ Written
    /\ Len(out) = 3
    /\ out[2] # out[3]

\* C8: in every record, bytes_pp, lines_pp and time_pp are all zero or all
\* non-zero, and all zero exactly when the unit's preprocessing failed or its
\* command is unsupported.
C8_ZeroTogether ==
    \A u \in 1..N : \A k \in RecordsFor(u) :
        LET r == record_db[k]
        IN  /\ ZeroPp(r) \/ (r["bytes_pp"] # 0 /\ r["lines_pp"] # 0 /\ r["time_pp"] # 0)
            /\ ZeroPp(r) <=> (<<"pp", u>> \in diag \/ ~is_gcc_command(Items[u].command))

InCall(u) == fut[u].st \in {"cc", "post"}

\* What does hold of the scratch files: each one that exists belongs to a call
\* that is running, and a descriptor is open exactly during its call.
ScratchCleanedUp ==
    /\ \A p \in TmpNames : fs[p] # "absent" => \E u \in Units : InCall(u) /\ fut[u].cpp_file = p
    /\ fds = {u \in Units : InCall(u)}

C10_WriteOnceAfterAll ==
    /\ \A i \in 1..Len(results) : results[i] = i
    /\ Len(results) <= N
    /\ writes <= 1
    /\ args.record /\ compile_db.exists /\ store.exists => Written
    /\ Written =>
          /\ Len(results) = N
          /\ \A u \in 1..N : Finished(u)
          /\ \A u \in 1..N : Cardinality(RecordsFor(u)) = IF IsDone(u) THEN 1 ELSE 0
          /\ Len(record_db) = Cardinality({u \in 1..N : IsDone(u)})
          /\ store = [exists |-> TRUE, text |-> JsonDump(record_db)]

\* C10's case: a written pass in which one unit raised and another did not.
C10_Witness ==
    /\ Written
    /\ \E u, v \in 1..N : fut[u].st = "failed" /\ fut[v].st = "done"
    /\ Len(record_db) = 1

====
